---- MODULE Spec2Model ----
(***************************************************************************)
(* A model of the dependency-tree builder of the code analyzer:           *)
(* analyzeProject, buildDependencyTree, determineAffectingChanges and     *)
(* determineImpactReason.  Every await of the source is a point where the *)
(* event loop may run another task; the code between two awaits runs to   *)
(* completion and is one action.                                          *)
(***************************************************************************)
EXTENDS Integers, Sequences, FiniteSets, TLC

\* ---------------------------------------------------------------- bounds
\* The longest Change Set the inputs draw.
MaxChanges == 2
\* How many times the environment creates or removes a file during the runs.
MaxFsEvents == 1

\* ------------------------------------------------------- optional fields
\* An optional field of a FileNode or FileChange: absent, or present with a value.
None == <<>>
Some(v) == <<v>>
IsSome(o) == Len(o) = 1
Get(o) == o[1]

\* ----------------------------------------------------------------- paths
Path(d, b, x) == [dir |-> d, base |-> b, ext |-> x]
FE == Path("/p", "e", ".ts")
FA == Path("/p", "a", ".tsx")
FB == Path("/p", "b", ".js")
FC == Path("/p", "c", ".ts")
FLC == Path("/p/lib", "c", ".ts")
FG == Path("/p", "gone", ".ts")
FS == Path("/p", "s", ".css")
AllFiles == {FE, FA, FB, FC, FLC, FG, FS}

\* path.basename
Basename(p) == p.base \o p.ext

\* isJavaScriptFile: the source extensions of FileExtension.
isJavaScriptFile(p) == p.ext \in {".js", ".jsx", ".ts", ".tsx"}

FileType(p) == IF isJavaScriptFile(p) THEN "js" ELSE "asset"

\* resolveImportPath(filePath, source, rootDir): a relative specifier is
\* resolved against the directory of the importing file, a package name
\* resolves to null.
resolveImportPath(filePath, source) ==
  CASE source = "./a" -> Some(Path(filePath.dir, "a", ".tsx"))
    [] source = "./b" -> Some(Path(filePath.dir, "b", ".js"))
    [] source = "./c" -> Some(Path(filePath.dir, "c", ".ts"))
    [] source = "./e" -> Some(Path(filePath.dir, "e", ".ts"))
    [] source = "./lib/c" -> Some(Path(filePath.dir \o "/lib", "c", ".ts"))
    [] source = "../c" -> Some(Path("/p", "c", ".ts"))
    [] source = "./gone" -> Some(Path(filePath.dir, "gone", ".ts"))
    [] source = "./s.css" -> Some(Path(filePath.dir, "s", ".css"))
    [] OTHER -> None

\* ---------------------------------------------------------------- inputs
Imp(src, specs) == [source |-> src, specifiers |-> specs]
Chg(f, t, m) == [changedFile |-> f, changeType |-> t, modifiedExports |-> m]
Src(imps, exps, ok) == [imports |-> imps, exports |-> exps, ok |-> ok]

\* A project: the entry file, what the Symbol Extractor finds in each code file
\* (ok = FALSE: the extractor throws), the ignore list, the files on disk when
\* the run starts, the files the environment may create or remove meanwhile,
\* and the changes a Change Set is drawn from.
CycleProject ==
  [entry |-> FA,
   src |-> (FA :> Src(<<Imp("./b", <<"foo">>)>>, {"bar"}, TRUE)) @@
           (FB :> Src(<<Imp("./a", <<"bar">>)>>, {"foo"}, TRUE)),
   ignored |-> {},
   fs |-> {FA, FB},
   volatile |-> {FB},
   pool |-> {Chg(FB, "modify", Some(<<"foo">>)), Chg(FA, "delete", None)}]

DiamondProject ==
  [entry |-> FE,
   src |-> (FE :> Src(<<Imp("./a", <<"foo">>), Imp("./b", <<>>)>>, {}, TRUE)) @@
           (FA :> Src(<<Imp("./c", <<"foo">>)>>, {"foo"}, TRUE)) @@
           (FB :> Src(<<Imp("./c", <<"bar">>)>>, {}, TRUE)) @@
           (FC :> Src(<<>>, {"foo", "bar"}, TRUE)),
   ignored |-> {},
   fs |-> {FE, FA, FB, FC},
   volatile |-> {FC},
   pool |-> {Chg(FC, "modify", Some(<<"foo">>)), Chg(FC, "delete", None),
             Chg(FC, "modify", None)}]

ChainProject ==
  [entry |-> FE,
   src |-> (FE :> Src(<<Imp("./a", <<"foo">>)>>, {}, TRUE)) @@
           (FA :> Src(<<Imp("react", <<"useState">>), Imp("./c", <<"foo", "bar">>),
                        Imp("./gone", <<>>), Imp("./s.css", <<>>)>>, {"foo"}, TRUE)) @@
           (FC :> Src(<<Imp("./s.css", <<>>)>>, {"foo", "bar"}, TRUE)),
   ignored |-> {},
   fs |-> {FE, FA, FC, FS},
   volatile |-> {FS},
   pool |-> {Chg(FC, "add", None), Chg(FS, "modify", None), Chg(FG, "delete", None),
             Chg(FC, "modify", Some(<<"bar", "baz">>))}]

TwiceProject ==
  [entry |-> FE,
   src |-> (FE :> Src(<<Imp("./c", <<"foo">>), Imp("./lib/c", <<"bar">>),
                        Imp("./c", <<"bar", "foo">>)>>, {}, TRUE)) @@
           (FC :> Src(<<>>, {"foo", "bar"}, TRUE)) @@
           (FLC :> Src(<<Imp("../c", <<"bar">>)>>, {"bar"}, TRUE)),
   ignored |-> {},
   fs |-> {FE, FC, FLC},
   volatile |-> {},
   pool |-> {Chg(FC, "modify", Some(<<"foo">>)), Chg(FC, "modify", Some(<<>>)),
             Chg(FLC, "add", None)}]

DegradedProject ==
  [entry |-> FE,
   src |-> (FE :> Src(<<Imp("./a", <<"foo">>), Imp("./b", <<"foo">>), Imp("./s.css", <<>>)>>,
                      {}, TRUE)) @@
           (FA :> Src(<<Imp("./c", <<"foo">>)>>, {}, FALSE)) @@
           (FB :> Src(<<Imp("./c", <<"foo">>)>>, {}, TRUE)),
   ignored |-> {FB},
   fs |-> {FE, FA, FB, FC, FS},
   volatile |-> {},
   pool |-> {Chg(FA, "modify", None), Chg(FB, "delete", None), Chg(FS, "add", None)}]

AssetProject ==
  [entry |-> FS,
   src |-> <<>>,
   ignored |-> {},
   fs |-> {FS},
   volatile |-> {FS},
   pool |-> {Chg(FS, "delete", None), Chg(FS, "modify", Some(<<"foo">>))}]

Projects == {"cycle", "diamond", "chain", "twice", "degraded", "asset"}

ProjectOf(name) ==
  CASE name = "cycle" -> CycleProject
    [] name = "diamond" -> DiamondProject
    [] name = "chain" -> ChainProject
    [] name = "twice" -> TwiceProject
    [] name = "degraded" -> DegradedProject
    [] name = "asset" -> AssetProject

\* The sequences over S of length at most n.
SeqsUpTo(S, n) == UNION {[1..k -> S] : k \in 0..n}

\* ------------------------------------------------------ Impact Classifier
\* Array.prototype.filter, keeping the order.
RECURSIVE Filter(_, _)
Filter(seq, keep) ==
  IF seq = <<>> THEN <<>>
  ELSE (IF Head(seq) \in keep THEN <<Head(seq)>> ELSE <<>>) \o Filter(Tail(seq), keep)

Range(seq) == {seq[i] : i \in DOMAIN seq}

\* change.modifiedExports?.length: falsy when the field is absent or empty.
HasExportDiff(change) ==
  IsSome(change.modifiedExports) /\ Len(Get(change.modifiedExports)) > 0

Entry(change, specs) == [change |-> change, importedSpecifiers |-> specs]

\* The export diff ignored: every import of a changed file is an entry.
AffectingEntryCoarse(filePath, change, imp) ==
  IF resolveImportPath(filePath, imp.source) = Some(change.changedFile)
  THEN <<Entry(change, imp.specifiers)>>
  ELSE <<>>

\* The body of imports.forEach for one import: the entries it pushes.
AffectingEntry(filePath, change, imp) ==
  IF resolveImportPath(filePath, imp.source) = Some(change.changedFile)
  THEN IF change.changeType = "modify" /\ HasExportDiff(change)
       THEN LET affectedSpecifiers ==
                  Filter(imp.specifiers, Range(Get(change.modifiedExports)))
            IN  IF Len(affectedSpecifiers) > 0
                THEN <<Entry(change, affectedSpecifiers)>>
                ELSE <<>>
       ELSE <<Entry(change, imp.specifiers)>>
  ELSE <<>>

RECURSIVE ForEachImport(_, _, _)
ForEachImport(filePath, change, imports) ==
  IF imports = <<>> THEN <<>>
  ELSE AffectingEntry(filePath, change, Head(imports))
         \o ForEachImport(filePath, change, Tail(imports))

\* The loops swapped: entries grouped by import first, then by change.
RECURSIVE ForEachChange(_, _, _)
ForEachChange(filePath, changes, imp) ==
  IF changes = <<>> THEN <<>>
  ELSE AffectingEntry(filePath, Head(changes), imp)
         \o ForEachChange(filePath, Tail(changes), imp)

RECURSIVE determineAffectingChangesByImport(_, _, _)
determineAffectingChangesByImport(filePath, changes, imports) ==
  IF imports = <<>> THEN <<>>
  ELSE ForEachChange(filePath, changes, Head(imports))
         \o determineAffectingChangesByImport(filePath, changes, Tail(imports))

\* for (const change of changes) imports.forEach(...)
RECURSIVE determineAffectingChanges(_, _, _)
determineAffectingChanges(filePath, changes, imports) ==
  IF changes = <<>> THEN <<>>
  ELSE ForEachImport(filePath, Head(changes), imports)
         \o determineAffectingChanges(filePath, Tail(changes), imports)

\* ------------------------------------------------------- Reason Formatter
\* A text is the sequence of the pieces it is concatenated from.
RECURSIVE Join(_, _)
Join(pieces, sep) ==
  IF pieces = <<>> THEN <<>>
  ELSE IF Len(pieces) = 1 THEN <<Head(pieces)>>
  ELSE <<Head(pieces), sep>> \o Join(Tail(pieces), sep)

RECURSIVE Concat(_)
Concat(texts) == IF texts = <<>> THEN <<>> ELSE Head(texts) \o Concat(Tail(texts))

\* The line pushed for one affecting entry (the switch on change.changeType).
ReasonLine(entry) ==
  LET fileName == Basename(entry.change.changedFile)
  IN  CASE entry.change.changeType = "delete" ->
             <<"Imported file '", fileName, "' was deleted">>
        [] entry.change.changeType = "add" ->
             <<"New file '", fileName, "' was added that is imported">>
        [] entry.change.changeType = "modify" ->
             IF HasExportDiff(entry.change) /\ Len(entry.importedSpecifiers) > 0
             THEN <<"Modified exports from '", fileName, "': ">>
                    \o Join(entry.importedSpecifiers, ", ")
             ELSE <<"File '", fileName, "' content was modified">>

\* reasons.join('\n')
determineImpactReason(affectingChanges) ==
  LET lines == [i \in DOMAIN affectingChanges |-> ReasonLine(affectingChanges[i])]
  IN  Concat([i \in 1..(2 * Len(lines) - 1) |->
                IF i % 2 = 1 THEN lines[(i + 1) \div 2] ELSE <<"\n">>])

FileReason(changeType) == <<"File was ", changeType, "d">>
AssetReason(changeType) == <<"Asset file was ", changeType, "d">>

\* changes.find(c => c.changedFile === filePath): the first match, if any.
RECURSIVE Find(_, _)
Find(changes, filePath) ==
  IF changes = <<>> THEN None
  ELSE IF Head(changes).changedFile = filePath THEN Some(Head(changes))
  ELSE Find(Tail(changes), filePath)

\* ------------------------------------------------------------------ state
VARIABLES
  project,   \* the name of the project under analysis (input)
  changes,   \* options.changes, the Change Set (input)
  fs,        \* the paths fs.access succeeds on
  fsEvents,  \* how many times the environment has changed fs
  main,      \* analyzeProject: "access" (awaiting fs.access(entryFile)),
             \* "build" (awaiting buildDependencyTree), "returned", "threw"
  visited,   \* context.visited
  calls,     \* the buildDependencyTree calls of this run, by position: <<>> is
             \* the root call, Append(pos, i) the call made for import i of pos
  result,    \* the tree analyzeProject returned, if it has
  firstRun   \* the outcome of an earlier analyzeProject call on the same inputs

vars == <<project, changes, fs, fsEvents, main, visited, calls, result, firstRun>>

\* The project under analysis.
Proj == ProjectOf(project)

\* ------------------------------------------------------------ Tree Builder
\* { file, type, children: [] } with every optional field absent.
Leaf(filePath, type) ==
  [file |-> filePath, type |-> type, children |-> <<>>, imports |-> None,
   exports |-> None, isAffected |-> None, changeType |-> None, reason |-> None]

\* A buildDependencyTree call: pc is "access" (awaiting fs.access(filePath)),
\* "parse" (awaiting parseFile), "children" (awaiting Promise.all) or "done"
\* (returned node); stub: the call returned at the visited check; slots: the
\* state of each childPromise, "access" (awaiting fs.access(resolvedPath)),
\* "build" (awaiting the recursive call) or "null" (resolved to null);
\* affecting: the local affectingChanges; extracted: parseFile was called;
\* caught: the outer catch ran.
Call(filePath, pc, stub, node) ==
  [file |-> filePath, pc |-> pc, stub |-> stub, node |-> node, slots |-> <<>>,
   affecting |-> <<>>, extracted |-> FALSE, caught |-> FALSE]

\* The mark forgotten: the set stays as it was.
MarkVisitedNever(vis, filePath) == vis

\* visited.add(filePath)
MarkVisited(vis, filePath) == vis \cup {filePath}

\* The visited check skipped: every call goes on to build its node.
EnterCallUnchecked(filePath, vis) ==
  [call |-> Call(filePath, "access", FALSE, Leaf(filePath, FileType(filePath))),
   visited |-> MarkVisited(vis, filePath)]

\* The synchronous head of buildDependencyTree, up to the first await: the
\* visited check, the stub return, the mark.
EnterCall(filePath, vis) ==
  IF filePath \in vis
  THEN [call |-> Call(filePath, "done", TRUE, Leaf(filePath, FileType(filePath))),
        visited |-> vis]
  ELSE [call |-> Call(filePath, "access", FALSE, Leaf(filePath, FileType(filePath))),
        visited |-> MarkVisited(vis, filePath)]

shouldIgnoreFile(filePath) == filePath \in Proj.ignored

\* parseFile: the imports and exports of a code file, or a throw.
parseFile(filePath) ==
  IF filePath \in DOMAIN Proj.src /\ Proj.src[filePath].ok /\ filePath \in fs
  THEN Some([imports |-> Proj.src[filePath].imports,
             exports |-> Proj.src[filePath].exports])
  ELSE None

\* The kind stamped without the default reason.
StampKindOnly(node, change) ==
  IF IsSome(change)
  THEN [node EXCEPT !.changeType = Some(Get(change).changeType)]
  ELSE node

\* The node after fs.access(filePath) succeeded, up to the call of parseFile
\* or, for the other files, up to the return.
Stamp(node, change) ==
  IF IsSome(change)
  THEN [node EXCEPT !.changeType = Some(Get(change).changeType),
                    !.reason = Some(FileReason(Get(change).changeType))]
  ELSE node

\* Only a modified asset is marked.
AssetMarkModified(node, change) ==
  IF IsSome(change) /\ Get(change).changeType = "modify"
  THEN [node EXCEPT !.isAffected = Some(TRUE),
                    !.reason = Some(AssetReason(Get(change).changeType))]
  ELSE node

AssetMark(node, change) ==
  IF IsSome(change)
  THEN [node EXCEPT !.isAffected = Some(TRUE),
                    !.reason = Some(AssetReason(Get(change).changeType))]
  ELSE node

NeedsParse(filePath) == FileType(filePath) = "js" /\ ~shouldIgnoreFile(filePath)

Accessed(filePath) ==
  LET node == Stamp(Leaf(filePath, FileType(filePath)), Find(changes, filePath))
  IN  IF NeedsParse(filePath) THEN node
      ELSE IF node.type = "asset" THEN AssetMark(node, Find(changes, filePath))
      ELSE node

\* Affected only when some entry names a specifier.
ClassifyNamed(node, affectingChanges) ==
  IF \E k \in DOMAIN affectingChanges : Len(affectingChanges[k].importedSpecifiers) > 0
  THEN [node EXCEPT !.isAffected = Some(TRUE),
                    !.reason = Some(determineImpactReason(affectingChanges))]
  ELSE node

\* The flag set without a reason.
ClassifyFlagOnly(node, affectingChanges) ==
  IF Len(affectingChanges) > 0
  THEN [node EXCEPT !.isAffected = Some(TRUE)]
  ELSE node

\* The impact reason added after the reason the node already has.
ClassifyAppend(node, affectingChanges) ==
  IF Len(affectingChanges) > 0
  THEN [node EXCEPT !.isAffected = Some(TRUE),
                    !.reason = Some((IF IsSome(node.reason)
                                     THEN Get(node.reason) \o <<"\n">> ELSE <<>>)
                                    \o determineImpactReason(affectingChanges))]
  ELSE node

\* The flag written in both branches: false when nothing affects the file.
ClassifyExplicit(node, affectingChanges) ==
  IF Len(affectingChanges) > 0
  THEN [node EXCEPT !.isAffected = Some(TRUE),
                    !.reason = Some(determineImpactReason(affectingChanges))]
  ELSE [node EXCEPT !.isAffected = Some(FALSE)]

\* The node after parseFile returned, up to the start of the childPromises.
Classify(node, affectingChanges) ==
  IF Len(affectingChanges) > 0
  THEN [node EXCEPT !.isAffected = Some(TRUE),
                    !.reason = Some(determineImpactReason(affectingChanges))]
  ELSE node

Parsed(node, parsed, affectingChanges) ==
  Classify([node EXCEPT !.imports = Some(parsed.imports), !.exports = Some(parsed.exports)],
           affectingChanges)

\* The outer catch rethrows: the call never returns a node.
AccessFailedRethrow(call) ==
  [call EXCEPT !.pc = "threw", !.caught = TRUE]

\* The outer catch of buildDependencyTree: warn and return an asset leaf.
AccessFailed(call) ==
  [call EXCEPT !.node = Leaf(call.file, "asset"), !.pc = "done", !.caught = TRUE]

\* No inner try: the failure reaches the outer catch.
ParseFailedOuter(call) ==
  [call EXCEPT !.node = Leaf(call.file, "asset"), !.pc = "done", !.caught = TRUE]

\* The inner catch of buildDependencyTree: warn; the node goes on to return
\* node as it stands.
ParseFailed(call) == [call EXCEPT !.pc = "done"]

\* A childPromise up to its first await: null for an unresolved specifier.
StartSlots(filePath, imports) ==
  [i \in DOMAIN imports |->
     IF IsSome(resolveImportPath(filePath, imports[i].source)) THEN "access" ELSE "null"]

ResolvedPath(pos, i) ==
  Get(resolveImportPath(calls[pos].file, Get(calls[pos].node.imports)[i].source))

\* The promise of slot i of the call at pos has resolved.
Settled(pos, i) ==
  \/ calls[pos].slots[i] = "null"
  \/ calls[pos].slots[i] = "build" /\ calls[Append(pos, i)].pc = "done"

\* The children up to the first null: a failed import drops the later ones.
RECURSIVE ChildrenBeforeNull(_, _)
ChildrenBeforeNull(pos, i) ==
  IF i > Len(calls[pos].slots) \/ calls[pos].slots[i] # "build" THEN <<>>
  ELSE <<calls[Append(pos, i)].node>> \o ChildrenBeforeNull(pos, i + 1)

\* The children collected from the last import to the first.
RECURSIVE ChildrenLastFirst(_, _)
ChildrenLastFirst(pos, i) ==
  IF i > Len(calls[pos].slots) THEN <<>>
  ELSE ChildrenLastFirst(pos, i + 1)
         \o (IF calls[pos].slots[i] = "build" THEN <<calls[Append(pos, i)].node>> ELSE <<>>)

\* (await Promise.all(childPromises)).filter(child => child !== null)
RECURSIVE Children(_, _)
Children(pos, i) ==
  IF i > Len(calls[pos].slots) THEN <<>>
  ELSE (IF calls[pos].slots[i] = "build" THEN <<calls[Append(pos, i)].node>> ELSE <<>>)
         \o Children(pos, i + 1)

\* ---------------------------------------------------------------- actions
Init ==
  /\ project \in Projects
  /\ changes \in SeqsUpTo(Proj.pool, MaxChanges)
  /\ fs = Proj.fs
  /\ fsEvents = 0
  /\ main = "access"
  /\ visited = {}
  /\ calls = <<>>
  /\ result = None
  /\ firstRun = None

Running == main \in {"access", "build"}

\* analyzeProject: fs.access(entryFile) succeeded; buildDependencyTree is
\* called with a new visited set.
EntryAccessOk ==
  /\ main = "access"
  /\ Proj.entry \in fs
  /\ LET e == EnterCall(Proj.entry, {})
     IN  /\ calls' = (<<>> :> e.call)
         /\ visited' = e.visited
  /\ main' = "build"
  /\ UNCHANGED <<project, changes, fs, fsEvents, result, firstRun>>

\* analyzeProject: fs.access(entryFile) rejected; the catch rethrows.
EntryAccessFail ==
  /\ main = "access"
  /\ Proj.entry \notin fs
  /\ main' = "threw"
  /\ UNCHANGED <<project, changes, fs, fsEvents, visited, calls, result, firstRun>>

\* buildDependencyTree: fs.access(filePath) succeeded.
AccessOk(pos) ==
  /\ calls[pos].pc = "access"
  /\ calls[pos].file \in fs
  /\ calls' = [calls EXCEPT ![pos].node = Accessed(calls[pos].file),
                            ![pos].extracted = NeedsParse(calls[pos].file),
                            ![pos].pc = IF NeedsParse(calls[pos].file) THEN "parse" ELSE "done"]
  /\ UNCHANGED <<project, changes, fs, fsEvents, main, visited, result, firstRun>>

\* buildDependencyTree: fs.access(filePath) rejected; the outer catch returns
\* an asset leaf.
AccessFail(pos) ==
  /\ calls[pos].pc = "access"
  /\ calls[pos].file \notin fs
  /\ calls' = [calls EXCEPT ![pos] = AccessFailed(calls[pos])]
  /\ UNCHANGED <<project, changes, fs, fsEvents, main, visited, result, firstRun>>

\* buildDependencyTree: parseFile returned; the node is classified and the
\* childPromises are started.
ParseOk(pos) ==
  /\ calls[pos].pc = "parse"
  /\ IsSome(parseFile(calls[pos].file))
  /\ LET parsed == Get(parseFile(calls[pos].file))
         affectingChanges ==
           determineAffectingChanges(calls[pos].file, changes, parsed.imports)
     IN  calls' = [calls EXCEPT ![pos].node = Parsed(calls[pos].node, parsed, affectingChanges),
                                ![pos].affecting = affectingChanges,
                                ![pos].slots = StartSlots(calls[pos].file, parsed.imports),
                                ![pos].pc = "children"]
  /\ UNCHANGED <<project, changes, fs, fsEvents, main, visited, result, firstRun>>

\* buildDependencyTree: parseFile threw; the inner catch warns and the node is
\* returned as it was.
ParseFail(pos) ==
  /\ calls[pos].pc = "parse"
  /\ ~IsSome(parseFile(calls[pos].file))
  /\ calls' = [calls EXCEPT ![pos] = ParseFailed(calls[pos])]
  /\ UNCHANGED <<project, changes, fs, fsEvents, main, visited, result, firstRun>>

\* childPromise i: fs.access(resolvedPath) succeeded; buildDependencyTree is
\* called and runs up to its first await.
ChildAccessOk(pos, i) ==
  /\ calls[pos].pc = "children"
  /\ calls[pos].slots[i] = "access"
  /\ ResolvedPath(pos, i) \in fs
  /\ LET e == EnterCall(ResolvedPath(pos, i), visited)
     IN  /\ calls' = [calls EXCEPT ![pos].slots[i] = "build"] @@ (Append(pos, i) :> e.call)
         /\ visited' = e.visited
  /\ UNCHANGED <<project, changes, fs, fsEvents, main, result, firstRun>>

\* childPromise i: fs.access(resolvedPath) rejected; the catch warns and
\* returns null.
ChildAccessFail(pos, i) ==
  /\ calls[pos].pc = "children"
  /\ calls[pos].slots[i] = "access"
  /\ ResolvedPath(pos, i) \notin fs
  /\ calls' = [calls EXCEPT ![pos].slots[i] = "null"]
  /\ UNCHANGED <<project, changes, fs, fsEvents, main, visited, result, firstRun>>

\* buildDependencyTree: Promise.all resolved; the non-null children are stored
\* and the node is returned.
Gather(pos) ==
  /\ calls[pos].pc = "children"
  /\ \A i \in DOMAIN calls[pos].slots : Settled(pos, i)
  /\ calls' = [calls EXCEPT ![pos].node.children = Children(pos, 1),
                            ![pos].pc = "done"]
  /\ UNCHANGED <<project, changes, fs, fsEvents, main, visited, result, firstRun>>

\* analyzeProject: the root call returned; return tree.
Return ==
  /\ main = "build"
  /\ calls[<<>>].pc = "done"
  /\ result' = Some(calls[<<>>].node)
  /\ main' = "returned"
  /\ UNCHANGED <<project, changes, fs, fsEvents, visited, calls, firstRun>>

\* The environment creates or removes a file while analyzeProject runs.
FsEvent(p) ==
  /\ Running
  /\ fsEvents < MaxFsEvents
  /\ fs' = IF p \in fs THEN fs \ {p} ELSE fs \cup {p}
  /\ fsEvents' = fsEvents + 1
  /\ UNCHANGED <<project, changes, main, visited, calls, result, firstRun>>

\* analyzeProject is called a second time with the same options.
Again ==
  /\ ~Running
  /\ firstRun = None
  /\ firstRun' = Some([main |-> main, result |-> result, fsEvents |-> fsEvents])
  /\ main' = "access"
  /\ visited' = {}
  /\ calls' = <<>>
  /\ result' = None
  /\ UNCHANGED <<project, changes, fs, fsEvents>>

Next ==
  \/ EntryAccessOk
  \/ EntryAccessFail
  \/ \E pos \in DOMAIN calls : AccessOk(pos)
  \/ \E pos \in DOMAIN calls : AccessFail(pos)
  \/ \E pos \in DOMAIN calls : ParseOk(pos)
  \/ \E pos \in DOMAIN calls : ParseFail(pos)
  \/ \E pos \in DOMAIN calls : \E i \in DOMAIN calls[pos].slots : ChildAccessOk(pos, i)
  \/ \E pos \in DOMAIN calls : \E i \in DOMAIN calls[pos].slots : ChildAccessFail(pos, i)
  \/ \E pos \in DOMAIN calls : Gather(pos)
  \/ Return
  \/ \E p \in Proj.volatile : FsEvent(p)
  \/ Again

\* The steps of the program, as opposed to those of its environment.
Program ==
  \/ EntryAccessOk
  \/ EntryAccessFail
  \/ \E pos \in DOMAIN calls :
       \/ AccessOk(pos)
       \/ AccessFail(pos)
       \/ ParseOk(pos)
       \/ ParseFail(pos)
       \/ Gather(pos)
       \/ \E i \in DOMAIN calls[pos].slots : ChildAccessOk(pos, i) \/ ChildAccessFail(pos, i)
  \/ Return

Spec == Init /\ [][Next]_vars

\* The event loop runs every continuation that is ready.
FairSpec == Spec /\ WF_vars(Program)

\* ----------------------------------------------------- reading the calls
Returned == main = "returned"

\* pos is a proper ancestor of q in the tree of calls.
Ancestor(pos, q) == Len(pos) < Len(q) /\ SubSeq(q, 1, Len(pos)) = pos

\* A node as the visited check returns it: nothing but file, type, no children.
IsStubNode(node) == node = Leaf(node.file, FileType(node.file))

\* A fully expanded code node: the extractor succeeded on it.
Expanded(pos) == IsSome(calls[pos].node.imports)

AllDone == \A pos \in DOMAIN calls : calls[pos].pc = "done"

\* ---------------------------------------------------------------- claims
\* A call made for a file that is being built further up the same branch (the
\* second encounter on a cycle) returns a childless stub at once.
CycleStub ==
  \A pos \in DOMAIN calls : \A q \in DOMAIN calls :
    Ancestor(pos, q) /\ calls[pos].file = calls[q].file
      => /\ calls[q].stub
         /\ calls[q].pc = "done"
         /\ IsStubNode(calls[q].node)
         /\ calls[q].node.children = <<>>

\* What a run has left to do, at most: a call that passed the visited check
\* awaits at most one access, one extraction, one access per import and one
\* Promise.all; a file not yet visited may still get one such call.
Weight(filePath) ==
  3 + (IF filePath \in DOMAIN Proj.src THEN Len(Proj.src[filePath].imports) ELSE 0)

Remaining(call) ==
  CASE call.pc = "access" -> Weight(call.file)
    [] call.pc = "parse" -> Weight(call.file) - 1
    [] call.pc = "children" ->
         1 + Cardinality({i \in DOMAIN call.slots : call.slots[i] = "access"})
    [] OTHER -> 0

RECURSIVE UnvisitedWeight(_)
UnvisitedWeight(S) ==
  IF S = {} THEN 0
  ELSE LET f == CHOOSE x \in S : TRUE IN Weight(f) + UnvisitedWeight(S \ {f})

RECURSIVE RemainingOf(_)
RemainingOf(P) ==
  IF P = {} THEN 0
  ELSE LET pos == CHOOSE x \in P : TRUE IN Remaining(calls[pos]) + RemainingOf(P \ {pos})

Measure ==
  (IF main = "access" THEN 2 ELSE IF main = "build" THEN 1 ELSE 0)
    + (IF Running THEN UnvisitedWeight(AllFiles \ visited) + RemainingOf(DOMAIN calls) ELSE 0)

\* Some continuation of a call is ready to run: an access or an extraction
\* completes, or the Promise.all of settled children resolves.
Ready(pos) ==
  \/ calls[pos].pc \in {"access", "parse"}
  \/ /\ calls[pos].pc = "children"
     /\ \/ \E i \in DOMAIN calls[pos].slots : calls[pos].slots[i] = "access"
        \/ \A i \in DOMAIN calls[pos].slots : Settled(pos, i)

\* The program has a step to take (ENABLED Program, spelled out).
CanStep ==
  \/ main = "access"
  \/ main = "build" /\ (calls[<<>>].pc = "done" \/ \E pos \in DOMAIN calls : Ready(pos))

\* A step of the program, not of its environment.
ProgramStep == fsEvents' = fsEvents /\ firstRun' = firstRun

\* CanStep and ProgramStep say what they are meant to say.
CanStepIsEnabled == CanStep <=> ENABLED Program
ProgramStepIsProgram == [][ProgramStep <=> Program]_vars

\* C1: termination on every import graph, cyclic ones included.  As the event
\* loop runs every continuation that is ready, a run ends if a running
\* analyzeProject always has a step to take and every step of the program
\* lowers Measure, which is never negative; when it has returned every call
\* has, and the second encounter of a file on a cycle is a childless stub.
C1_Termination ==
  /\ [](Running => CanStep)
  /\ [][ProgramStep => Measure' < Measure]_vars
  /\ [](Measure >= 0)
  /\ [](Returned => AllDone)
  /\ []CycleStub

\* The same, stated on the behaviours of FairSpec.
C1_Live == (Running ~> ~Running) /\ (main = "build" ~> Returned)

\* A returned run of the cyclic project: the call for A below B below A is a stub.
C1_Witness ==
  /\ Returned
  /\ project = "cycle"
  /\ <<1, 1>> \in DOMAIN calls
  /\ calls[<<1, 1>>].file = calls[<<>>].file
  /\ calls[<<1, 1>>].stub
  /\ result = Some(calls[<<>>].node)
  /\ Len(calls[<<>>].node.children) = 1
  /\ Len(calls[<<>>].node.children[1].children) = 1
  /\ IsStubNode(calls[<<>>].node.children[1].children[1])

\* The import graph of the project: the files a file imports, as resolved.
Imports(filePath) ==
  IF filePath \in DOMAIN Proj.src
  THEN {Get(resolveImportPath(filePath, imp.source)) :
          imp \in {x \in Range(Proj.src[filePath].imports) :
                     IsSome(resolveImportPath(filePath, x.source))}}
  ELSE {}

\* The files reached from the files of S by zero or more import edges.
RECURSIVE Closure(_)
Closure(S) ==
  LET T == S \cup UNION {Imports(f) : f \in S}
  IN  IF T = S THEN S ELSE Closure(T)

\* The files reached from filePath by one or more import edges.
Reaches(filePath) == Closure(Imports(filePath))

ChangedFiles == {changes[k].changedFile : k \in DOMAIN changes}

\* C2: in the returned tree every fully expanded code node whose file reaches
\* a changed file through one or more import edges has isAffected = true.
C2_TransitivelyAffected ==
  Returned =>
    \A pos \in DOMAIN calls :
      Expanded(pos) /\ Reaches(calls[pos].file) \cap ChangedFiles # {}
        => calls[pos].node.isAffected = Some(TRUE)

\* The calls made for filePath in this run.
CallsFor(filePath) == {pos \in DOMAIN calls : calls[pos].file = filePath}

\* A returned run of the diamond project in which no file was created or
\* removed: entry -> A, entry -> B, A -> C, B -> C, all accessible and parsable.
DiamondRun == Returned /\ project = "diamond" /\ fsEvents = 0

\* C3, as claimed: in a diamond both A and B get a full child node for C.
C3_BothFull ==
  DiamondRun =>
    \A pos \in CallsFor(FC) : Expanded(pos) /\ ~IsStubNode(calls[pos].node)

\* C3, amended: C is a child of A and of B; exactly one of the two nodes is
\* full (it carries C's imports and exports), the one whose parent reached C
\* first, and the other is a childless stub.
C3_OneFullOneStub ==
  DiamondRun =>
    /\ CallsFor(FC) = {<<1, 1>>, <<2, 1>>}
    /\ calls[<<>>].node.children[1].file = FA
    /\ calls[<<>>].node.children[2].file = FB
    /\ \E full \in CallsFor(FC) : \E other \in CallsFor(FC) \ {full} :
         /\ ~calls[full].stub
         /\ calls[full].node.imports = Some(Proj.src[FC].imports)
         /\ calls[full].node.exports = Some(Proj.src[FC].exports)
         /\ calls[<<>>].node.children[full[1]].children = <<calls[full].node>>
         /\ calls[other].stub
         /\ calls[<<>>].node.children[other[1]].children = <<Leaf(FC, "js")>>

\* A diamond run in which B, the second import, reached C first: B holds the
\* full node and A the stub.
C3_Witness ==
  /\ DiamondRun
  /\ ~calls[<<2, 1>>].stub
  /\ Expanded(<<2, 1>>)
  /\ calls[<<1, 1>>].stub
  /\ Get(result).children[1].children = <<Leaf(FC, "js")>>
  /\ IsSome(Get(result).children[2].children[1].exports)

\* C4: the visited check and the mark are one step, so under every
\* interleaving of the sibling tasks at most one call per path passes the
\* check, and each path is extracted and expanded at most once in a run.
C4_OnePassPerPath ==
  \A f \in AllFiles :
    /\ Cardinality({pos \in CallsFor(f) : ~calls[pos].stub}) <= 1
    /\ Cardinality({pos \in CallsFor(f) : calls[pos].extracted}) <= 1
    /\ Cardinality({pos \in CallsFor(f) : calls[pos].slots # <<>>}) <= 1
    /\ (CallsFor(f) # {} => f \in visited)
    /\ \A pos \in CallsFor(f) :
         calls[pos].stub => ~calls[pos].extracted /\ calls[pos].slots = <<>>

\* Two sibling tasks are both in flight and both have asked for C: one call
\* passed the check and extracted C, the other got the stub.
C4_Witness ==
  /\ project = "diamond"
  /\ main = "build"
  /\ calls[<<>>].pc = "children"
  /\ <<1>> \in DOMAIN calls /\ calls[<<1>>].pc = "children"
  /\ <<2>> \in DOMAIN calls /\ calls[<<2>>].pc = "children"
  /\ CallsFor(FC) = {<<1, 1>>, <<2, 1>>}
  /\ Cardinality({pos \in CallsFor(FC) : calls[pos].extracted}) = 1
  /\ Cardinality({pos \in CallsFor(FC) : calls[pos].stub}) = 1

\* C5: two runs on the same filesystem state, entry file and Change Set
\* return identical trees, whatever the order in which the sibling accesses
\* and extractions complete.  (fsEvents = 0 at the end of the second run: no
\* file was created or removed during either run.)
C5_Determinism ==
  Returned /\ IsSome(firstRun) /\ fsEvents = 0
    => Get(firstRun).main = "returned" /\ Get(firstRun).result = result

\* The imports of the node of a fully expanded call.
ImportsOf(pos) == Get(calls[pos].node.imports)

\* Import i of the call at pos resolves to the changed file of change c.
Matches(pos, i, c) ==
  resolveImportPath(calls[pos].file, ImportsOf(pos)[i].source) = Some(c.changedFile)

\* A modify with a non-empty modifiedExports set.
FineGrained(c) ==
  /\ c.changeType = "modify"
  /\ IsSome(c.modifiedExports)
  /\ Get(c.modifiedExports) # <<>>

\* The specifiers of import i that are among the modified exports of c.
Intersection(pos, i, c) ==
  Range(ImportsOf(pos)[i].specifiers) \cap Range(Get(c.modifiedExports))

\* C6: for a modify with a non-empty modifiedExports set, an import of the
\* changed file is an affecting entry exactly when its specifiers meet the
\* modified exports, and the entry records exactly the common specifiers; a
\* file whose imports of changed files all have nothing in common with the
\* modified exports is not marked affected, and a file with an import that
\* has is marked affected with a reason naming the common specifiers.
C6_FineGrainedModify ==
  \A pos \in DOMAIN calls :
    Expanded(pos) =>
      /\ \A c \in Range(changes) :
           FineGrained(c) =>
             {Range(e.importedSpecifiers) :
                e \in {x \in Range(calls[pos].affecting) : x.change = c}}
               = {Intersection(pos, i, c) :
                    i \in {j \in DOMAIN ImportsOf(pos) :
                             Matches(pos, j, c) /\ Intersection(pos, j, c) # {}}}
      /\ (\A c \in Range(changes) : \A i \in DOMAIN ImportsOf(pos) :
            Matches(pos, i, c) => FineGrained(c) /\ Intersection(pos, i, c) = {})
           => calls[pos].node.isAffected = None /\ calls[pos].affecting = <<>>
      /\ \A c \in Range(changes) : \A i \in DOMAIN ImportsOf(pos) :
           FineGrained(c) /\ Matches(pos, i, c) /\ Intersection(pos, i, c) # {}
             => /\ calls[pos].node.isAffected = Some(TRUE)
                /\ IsSome(calls[pos].node.reason)
                /\ "Modified exports from '" \in Range(Get(calls[pos].node.reason))
                /\ Intersection(pos, i, c) \subseteq Range(Get(calls[pos].node.reason))

\* C exports foo and bar and was modified in foo: A, which imports foo from
\* C, is affected and its reason names foo; B, which imports bar, is not.
C6_Witness ==
  /\ Returned
  /\ project = "diamond"
  /\ changes = <<Chg(FC, "modify", Some(<<"foo">>))>>
  /\ calls[<<1>>].file = FA
  /\ calls[<<1>>].affecting = <<Entry(changes[1], <<"foo">>)>>
  /\ calls[<<1>>].node.isAffected = Some(TRUE)
  /\ calls[<<1>>].node.reason = Some(<<"Modified exports from '", "c.ts", "': ", "foo">>)
  /\ calls[<<2>>].file = FB
  /\ Expanded(<<2>>)
  /\ calls[<<2>>].node.isAffected = None
  /\ calls[<<2>>].node.reason = None

\* C7: a node whose extracted imports include an added or deleted file is
\* marked affected whatever the specifiers of the import, the empty set
\* included, and whether or not the changed file is on disk and becomes a
\* child; the entry records all the specifiers of the import.
C7_CoarseAddDelete ==
  \A pos \in DOMAIN calls :
    Expanded(pos) =>
      \A c \in Range(changes) : \A i \in DOMAIN ImportsOf(pos) :
        c.changeType \in {"add", "delete"} /\ Matches(pos, i, c)
          => /\ calls[pos].node.isAffected = Some(TRUE)
             /\ Entry(c, ImportsOf(pos)[i].specifiers) \in Range(calls[pos].affecting)
             /\ IsSome(calls[pos].node.reason)
             /\ Basename(c.changedFile) \in Range(Get(calls[pos].node.reason))

\* A imports the deleted file gone.ts with no specifiers; gone.ts is not on
\* disk and is not a child of A, and A is marked affected.
C7_Witness ==
  /\ Returned
  /\ project = "chain"
  /\ changes = <<Chg(FG, "delete", None)>>
  /\ FG \notin fs
  /\ calls[<<1>>].file = FA
  /\ ImportsOf(<<1>>)[3] = Imp("./gone", <<>>)
  /\ calls[<<1>>].slots[3] = "null"
  /\ \A k \in DOMAIN calls[<<1>>].node.children : calls[<<1>>].node.children[k].file # FG
  /\ calls[<<1>>].node.isAffected = Some(TRUE)
  /\ calls[<<1>>].node.reason = Some(<<"Imported file '", "gone.ts", "' was deleted">>)

\* The nodes of a tree.
RECURSIVE TreeNodes(_)
TreeNodes(node) == {node} \cup UNION {TreeNodes(node.children[k]) : k \in DOMAIN node.children}

\* The nodes of the returned tree are the nodes the calls of the run returned.
TreeIsCalls == TreeNodes(Get(result)) = {calls[pos].node : pos \in DOMAIN calls}

\* C8, as claimed: every node of the returned tree whose file is a non-code
\* file matching a changed file is marked affected with the asset reason and
\* has no children.  (Stated for the runs during which no file was created or
\* removed.)
C8_EveryAssetNode ==
  Returned /\ fsEvents = 0 =>
    \A n \in TreeNodes(Get(result)) :
      ~isJavaScriptFile(n.file) /\ n.file \in ChangedFiles
        => /\ n.isAffected = Some(TRUE)
           /\ \E c \in Range(changes) :
                c.changedFile = n.file /\ n.reason = Some(AssetReason(c.changeType))
           /\ n.children = <<>>

\* C8, amended: the node built by the first encounter of a non-code file
\* that matches a changed file and passed the access check is marked affected
\* with the asset reason of the first matching change, whatever its kind, and
\* has no children; the nodes of later encounters are stubs, and the node of
\* a file that failed the access check is a bare asset leaf.
C8_FirstAssetNode ==
  Returned =>
    /\ TreeIsCalls
    /\ \A pos \in DOMAIN calls :
         LET n == calls[pos].node IN
         ~isJavaScriptFile(n.file) /\ n.file \in ChangedFiles
           => IF calls[pos].stub \/ calls[pos].caught
              THEN n = Leaf(n.file, "asset")
              ELSE /\ n.type = "asset"
                   /\ n.isAffected = Some(TRUE)
                   /\ n.changeType = Some(Get(Find(changes, n.file)).changeType)
                   /\ n.reason = Some(AssetReason(Get(Find(changes, n.file)).changeType))
                   /\ n.children = <<>>
                   /\ n.imports = None /\ n.exports = None

\* The changed stylesheet is imported by A and by C: one node is marked
\* affected, the node of the other encounter is a stub.
C8_Witness ==
  /\ Returned
  /\ project = "chain"
  /\ fsEvents = 0
  /\ changes = <<Chg(FS, "modify", None)>>
  /\ Cardinality(CallsFor(FS)) = 2
  /\ \E pos \in CallsFor(FS) :
       /\ ~calls[pos].stub
       /\ calls[pos].node.isAffected = Some(TRUE)
       /\ calls[pos].node.reason = Some(<<"Asset file was ", "modify", "d">>)
  /\ \E pos \in CallsFor(FS) : calls[pos].stub /\ calls[pos].node = Leaf(FS, "asset")

\* C9: an inaccessible entry file is the only thing that makes analyzeProject
\* throw, and it throws before any traversal step: nothing is visited and no
\* call is made.  Once the entry file passed the access check the run can
\* only go on and return a tree rooted at the entry file, whatever files are
\* missing, unparsable or unresolved: it always has a step to take and every
\* step lowers Measure.
C9_OnlyEntryAborts ==
  /\ [](main = "threw" => visited = {} /\ calls = <<>> /\ result = None)
  /\ [][main' = "threw" /\ main # "threw"
          => main = "access" /\ Proj.entry \notin fs /\ UNCHANGED <<visited, calls>>]_vars
  /\ [][main = "access" /\ ProgramStep
          => IF Proj.entry \in fs THEN main' = "build" ELSE main' = "threw"]_vars
  /\ [][main = "build" => main' \in {"build", "returned"}]_vars
  /\ [](main = "build" => CanStep)
  /\ [][main = "build" /\ ProgramStep => Measure' < Measure]_vars
  /\ [](Returned => IsSome(result) /\ Get(result).file = Proj.entry /\ AllDone)

\* A run that returned a tree although a file vanished between the access
\* check of its importer and its own (the outer catch ran), one import was
\* unresolved and one import target was not on disk.
C9_Witness ==
  /\ Returned
  /\ project = "chain"
  /\ \E pos \in DOMAIN calls : calls[pos].caught
  /\ resolveImportPath(FA, ImportsOf(<<1>>)[1].source) = None
  /\ calls[<<1>>].slots[1] = "null"
  /\ ResolvedPath(<<1>>, 3) \notin fs
  /\ calls[<<1>>].slots[3] = "null"
  /\ Get(result).file = FE

\* The import indices of the call at pos whose childPromise called
\* buildDependencyTree, in declaration order.
BuiltSlots(pos) ==
  SelectSeq([i \in DOMAIN calls[pos].slots |-> i], LAMBDA i : calls[pos].slots[i] = "build")

\* C10: in a successfully parsed node an import contributes a child exactly
\* when its specifier resolves and the resolved path passes the access check.
\* An unresolved import and an import whose path fails the check leave no
\* child, do not touch the visited set, raise nothing (analyzeProject goes on)
\* and leave the other imports their children, in declaration order.
C10_ImportsDegrade ==
  /\ [](\A pos \in DOMAIN calls :
          Expanded(pos) =>
            /\ Len(calls[pos].slots) = Len(ImportsOf(pos))
            /\ \A i \in DOMAIN calls[pos].slots :
                 /\ resolveImportPath(calls[pos].file, ImportsOf(pos)[i].source) = None
                      => calls[pos].slots[i] = "null"
                 /\ calls[pos].slots[i] = "build" <=> Append(pos, i) \in DOMAIN calls
            /\ calls[pos].pc = "done"
                 => [k \in DOMAIN calls[pos].node.children |-> calls[pos].node.children[k].file]
                      = [k \in DOMAIN BuiltSlots(pos) |-> ResolvedPath(pos, BuiltSlots(pos)[k])])
  /\ [][\A pos \in DOMAIN calls : \A i \in DOMAIN calls[pos].slots :
          calls[pos].slots[i] = "access" /\ pos \in DOMAIN calls' =>
            /\ calls'[pos].slots[i] = "build" => ResolvedPath(pos, i) \in fs
            /\ calls'[pos].slots[i] = "null"
                 => /\ ResolvedPath(pos, i) \notin fs
                    /\ visited' = visited
                    /\ main' = main
                    /\ DOMAIN calls' = DOMAIN calls]_vars
  /\ [](calls # <<>> => main \in {"build", "returned"})

\* A returned A with four imports: the package import is unresolved and
\* gone.ts is not on disk, and neither is a child nor visited; c.ts and the
\* stylesheet, declared around gone.ts, are the children, in that order.
C10_Witness ==
  /\ Returned
  /\ project = "chain"
  /\ fsEvents = 0
  /\ calls[<<1>>].file = FA
  /\ calls[<<1>>].slots = <<"null", "build", "null", "build">>
  /\ [k \in 1..2 |-> calls[<<1>>].node.children[k].file] = <<FC, FS>>
  /\ Len(calls[<<1>>].node.children) = 2
  /\ FG \notin visited

\* The call that passed the visited check for filePath, when there is one.
FirstCall(filePath) == CHOOSE pos \in CallsFor(filePath) : ~calls[pos].stub

\* C11: every second or later encounter of a file in a run yields a stub: the
\* file, the type of the node of the first encounter, no children and none of
\* imports, exports, isAffected, changeType, reason; nothing is extracted and
\* no child task is started for it.
C11_StubNode ==
  Returned =>
    \A pos \in DOMAIN calls :
      calls[pos].stub =>
        /\ \E first \in CallsFor(calls[pos].file) : ~calls[first].stub
        /\ calls[pos].node.file = calls[FirstCall(calls[pos].file)].node.file
        /\ calls[pos].node.type = calls[FirstCall(calls[pos].file)].node.type
        /\ calls[pos].node.children = <<>>
        /\ calls[pos].node.imports = None
        /\ calls[pos].node.exports = None
        /\ calls[pos].node.isAffected = None
        /\ calls[pos].node.changeType = None
        /\ calls[pos].node.reason = None
        /\ ~calls[pos].extracted
        /\ calls[pos].slots = <<>>
        /\ \A q \in DOMAIN calls : ~Ancestor(pos, q)

\* Import i of the call at pos gives an affecting entry for change k.
Affects(pos, k, i) ==
  /\ Matches(pos, i, changes[k])
  /\ FineGrained(changes[k]) => Intersection(pos, i, changes[k]) # {}

AffectingPairs(pos) ==
  {ki \in (DOMAIN changes) \X (DOMAIN ImportsOf(pos)) : Affects(pos, ki[1], ki[2])}

\* The place of a pair when the pairs are ordered by change, then by import.
Rank(pos, ki) ==
  Cardinality({x \in AffectingPairs(pos) :
                 x[1] < ki[1] \/ (x[1] = ki[1] /\ x[2] <= ki[2])})

\* The lines of a text: the runs of pieces between the "\n" pieces.
RECURSIVE Lines(_)
Lines(text) ==
  IF text = <<>> THEN <<>>
  ELSE IF \E j \in DOMAIN text : text[j] = "\n"
  THEN LET j == CHOOSE n \in DOMAIN text :
                  text[n] = "\n" /\ \A m \in 1..(n - 1) : text[m] # "\n"
       IN  <<SubSeq(text, 1, j - 1)>> \o Lines(SubSeq(text, j + 1, Len(text)))
  ELSE <<text>>

\* The words of the line for a change of the given kind.
KindWords(c) ==
  CASE c.changeType = "delete" -> {"Imported file '", "' was deleted"}
    [] c.changeType = "add" -> {"New file '", "' was added that is imported"}
    [] c.changeType = "modify" ->
         IF FineGrained(c) THEN {"Modified exports from '", "': "}
         ELSE {"File '", "' content was modified"}

\* C12: the reason of an affected code node has exactly one line per
\* (change, import) pair that gives an affecting entry, duplicates kept, and
\* the lines are ordered by the position of the change in the Change Set and
\* then by the position of the import in the file.
C12_ReasonLines ==
  \A pos \in DOMAIN calls :
    Expanded(pos) /\ calls[pos].node.isAffected = Some(TRUE) =>
      LET lines == Lines(Get(calls[pos].node.reason))
      IN  /\ IsSome(calls[pos].node.reason)
          /\ Len(lines) = Cardinality(AffectingPairs(pos))
          /\ Len(lines) > 0
          /\ \A ki \in AffectingPairs(pos) :
               LET line == lines[Rank(pos, ki)]
                   c == changes[ki[1]]
               IN  /\ KindWords(c) \subseteq Range(line)
                   /\ Basename(c.changedFile) \in Range(line)
                   /\ FineGrained(c) =>
                        Range(SubSeq(line, 4, Len(line))) \ {", "}
                          = Intersection(pos, ki[2], c)

\* The entry imports c.ts twice; c.ts has a modify without export names and a
\* modify of foo: four lines, the two of the first change before the two of
\* the second, and the two imports of one change give the same line twice.
C12_Witness ==
  /\ Returned
  /\ project = "twice"
  /\ changes = <<Chg(FC, "modify", Some(<<>>)), Chg(FC, "modify", Some(<<"foo">>))>>
  /\ calls[<<>>].node.isAffected = Some(TRUE)
  /\ Lines(Get(calls[<<>>].node.reason))
       = <<<<"File '", "c.ts", "' content was modified">>,
           <<"File '", "c.ts", "' content was modified">>,
           <<"Modified exports from '", "c.ts", "': ", "foo">>,
           <<"Modified exports from '", "c.ts", "': ", "foo">>>>

\* C13 as stated: every node of the returned tree whose file is the
\* changedFile of an entry of the Change Set carries the changeType of such
\* an entry and a reason.
C13_EveryChangedNode ==
  Returned =>
    \A pos \in DOMAIN calls :
      calls[pos].file \in ChangedFiles =>
        /\ \E c \in Range(changes) :
             /\ c.changedFile = calls[pos].file
             /\ calls[pos].node.changeType = Some(c.changeType)
        /\ IsSome(calls[pos].node.reason)

\* C13: a node of the returned tree whose file is a changed file carries the
\* changeType of the first entry of the Change Set for that file and a reason
\* when it is the node of a first encounter that passed its access check; a
\* stub and the leaf of a failed access check carry neither.
C13_FirstAccessibleNode ==
  Returned =>
    \A pos \in DOMAIN calls :
      calls[pos].file \in ChangedFiles =>
        IF calls[pos].stub \/ calls[pos].caught
        THEN calls[pos].node.changeType = None /\ calls[pos].node.reason = None
        ELSE /\ \E k \in DOMAIN changes :
                  /\ changes[k].changedFile = calls[pos].file
                  /\ \A j \in 1..(k - 1) : changes[j].changedFile # calls[pos].file
                  /\ calls[pos].node.changeType = Some(changes[k].changeType)
             /\ IsSome(calls[pos].node.reason)
             /\ Get(calls[pos].node.reason) # <<>>

\* a.tsx is deleted and is in a cycle with b.js: the root node of a.tsx
\* carries the kind and a reason, the stub of a.tsx under b.js carries neither.
C13_Witness ==
  /\ Returned
  /\ project = "cycle"
  /\ changes = <<Chg(FA, "delete", None)>>
  /\ calls[<<>>].file = FA
  /\ calls[<<>>].node.changeType = Some("delete")
  /\ IsSome(calls[<<>>].node.reason)
  /\ <<1, 1>> \in DOMAIN calls
  /\ calls[<<1, 1>>].file = FA
  /\ calls[<<1, 1>>].stub
  /\ calls[<<1, 1>>].node.changeType = None
  /\ calls[<<1, 1>>].node.reason = None

\* isAffected is absent or true in every node of every call and of the result.
AffectedAbsentOrTrue ==
  /\ \A pos \in DOMAIN calls : calls[pos].node.isAffected \in {None, Some(TRUE)}
  /\ IsSome(result) =>
       \A n \in TreeNodes(Get(result)) : n.isAffected \in {None, Some(TRUE)}

\* Within one run, a node whose isAffected is set keeps it.
AffectedKept ==
  firstRun' = firstRun =>
    \A pos \in DOMAIN calls :
      calls[pos].node.isAffected = Some(TRUE) =>
        pos \in DOMAIN calls' /\ calls'[pos].node.isAffected = Some(TRUE)

\* C14: in every node, of the calls in progress and of the returned tree,
\* isAffected is absent or true; no step writes false, and no step of a run
\* clears it once it is set.
C14_AffectedAbsentOrTrue == [](AffectedAbsentOrTrue) /\ [][AffectedKept]_vars

\* c.ts was added: its importer a.tsx is affected, in its call and in the
\* returned tree, and the entry e.ts has no isAffected field.
C14_Witness ==
  /\ Returned
  /\ project = "chain"
  /\ changes = <<Chg(FC, "add", None)>>
  /\ calls[<<1>>].file = FA
  /\ calls[<<1>>].node.isAffected = Some(TRUE)
  /\ calls[<<>>].node.isAffected = None
  /\ Get(result).isAffected = None
  /\ Get(result).children[1].isAffected = Some(TRUE)

\* A path is marked before any child task of its node exists, and work on a
\* node (access check, extraction, child tasks) is done only by the call that
\* passed the visited check for it.
MarkedBeforeRecursion ==
  \A pos \in DOMAIN calls :
    /\ calls[pos].slots # <<>> => calls[pos].file \in visited
    /\ calls[pos].pc # "done" \/ calls[pos].extracted \/ calls[pos].caught
         => ~calls[pos].stub /\ calls[pos].file \in visited

\* C15: the visited set is consulted for a node before any filesystem access
\* or extraction is done for the node's path, and the path is marked before
\* any recursion into the node's children starts, whatever the interleaving
\* of the sibling tasks. A child task awaiting fs.access(resolvedPath) has
\* not yet called buildDependencyTree, where the visited set is consulted.
C15_GuardBeforeWork ==
  /\ MarkedBeforeRecursion
  /\ \A pos \in DOMAIN calls : \A i \in DOMAIN calls[pos].slots :
       calls[pos].slots[i] = "access" => Append(pos, i) \in DOMAIN calls

\* A step of a run that starts a call consults the visited set of the state
\* it is taken in, and in the same step either returns the stub or marks the
\* path; a step that moves a call past its access check or its extraction is
\* taken by a call that passed the check and whose path is marked.
GuardStep ==
  firstRun' = firstRun =>
    /\ \A q \in (DOMAIN calls') \ (DOMAIN calls) :
         /\ calls'[q].stub <=> calls'[q].file \in visited
         /\ calls'[q].file \in visited'
         /\ q # <<>> =>
              /\ calls[SubSeq(q, 1, Len(q) - 1)].file \in visited
              /\ calls[SubSeq(q, 1, Len(q) - 1)].slots[q[Len(q)]] = "access"
    /\ \A pos \in DOMAIN calls :
         calls'[pos].pc # calls[pos].pc =>
           ~calls[pos].stub /\ calls[pos].file \in visited

\* C15, within a call: buildDependencyTree consults the visited set before
\* its own access check and its extraction, and marks the path in the same
\* step, before any child task of the node exists, whatever the interleaving
\* of the sibling tasks. The caller's access check of the resolved path comes
\* before the call and so before the visited set is consulted for that path.
C15_GuardWithinCall == [](MarkedBeforeRecursion) /\ [][GuardStep]_vars

\* In the diamond, b.js has started the call for c.ts, which is marked, while
\* the task of a.tsx for the same path is still awaiting its access check
\* and has not consulted the visited set.
C15_Witness ==
  /\ project = "diamond"
  /\ Running
  /\ <<2, 1>> \in DOMAIN calls
  /\ calls[<<2, 1>>].file = FC
  /\ ~calls[<<2, 1>>].stub
  /\ calls[<<2, 1>>].pc = "access"
  /\ FC \in visited
  /\ <<1>> \in DOMAIN calls
  /\ calls[<<1>>].slots = <<"access">>
  /\ ResolvedPath(<<1>>, 1) = FC
  /\ <<1, 1>> \notin DOMAIN calls

\* C16: the children of a returned node are the nodes returned by its child
\* tasks, in the order of the imports: child k is the node of the k-th import
\* whose specifier resolved and whose path passed the access check, whatever
\* the order in which the child tasks finished.
C16_ChildrenInImportOrder ==
  /\ [](\A pos \in DOMAIN calls :
          Expanded(pos) /\ calls[pos].pc = "done" =>
            /\ Len(calls[pos].node.children) = Len(BuiltSlots(pos))
            /\ \A k \in DOMAIN calls[pos].node.children :
                 /\ calls[pos].node.children[k] = calls[Append(pos, BuiltSlots(pos)[k])].node
                 /\ calls[pos].node.children[k].file = ResolvedPath(pos, BuiltSlots(pos)[k])
                 /\ \A j \in 1..(k - 1) : BuiltSlots(pos)[j] < BuiltSlots(pos)[k])
  /\ [][\A pos \in DOMAIN calls :
          pos \in DOMAIN calls' /\ calls[pos].pc = "children" /\ calls'[pos].pc = "done" =>
            /\ \A i \in DOMAIN calls[pos].slots : Settled(pos, i)
            /\ calls'[pos].slots = calls[pos].slots]_vars

\* a.tsx imports c.ts before s.css, and c.ts imports s.css too. The
\* stylesheet passed the checks of the later task of a.tsx and failed the
\* check of c.ts, and the one filesystem event removed it: the later task
\* finished while the earlier one was still running, and c.ts is still the
\* first child.
C16_Witness ==
  /\ Returned
  /\ project = "chain"
  /\ fsEvents = 1
  /\ FS \notin fs
  /\ {<<1>>, <<1, 2>>, <<1, 4>>} \subseteq DOMAIN calls
  /\ calls[<<1>>].file = FA
  /\ calls[<<1, 2>>].file = FC
  /\ calls[<<1, 2>>].slots = <<"null">>
  /\ calls[<<1, 4>>].file = FS
  /\ ~calls[<<1, 4>>].stub
  /\ ~calls[<<1, 4>>].caught
  /\ [k \in DOMAIN calls[<<1>>].node.children |-> calls[<<1>>].node.children[k].file]
       = <<FC, FS>>

\* The call at pos called parseFile and parseFile threw.
ExtractionFailed(pos) ==
  calls[pos].extracted /\ calls[pos].pc = "done" /\ ~Expanded(pos)

\* C17: when parseFile throws for a code file, the call returns its node
\* without imports and exports, with no children and no isAffected, with the
\* changeType and the default reason of the file's own change when it has
\* one, and nothing is raised: the outer catch does not run, analyzeProject
\* does not throw, and the step changes nothing outside the call.
C17_ExtractionFailureIsLocal ==
  /\ [](\A pos \in DOMAIN calls :
          ExtractionFailed(pos) =>
            /\ calls[pos].node.file = calls[pos].file
            /\ calls[pos].node.type = "js"
            /\ calls[pos].node.imports = None
            /\ calls[pos].node.exports = None
            /\ calls[pos].node.children = <<>>
            /\ calls[pos].node.isAffected = None
            /\ ~calls[pos].caught
            /\ main # "threw"
            /\ IF calls[pos].file \in ChangedFiles
               THEN \E k \in DOMAIN changes :
                      /\ changes[k].changedFile = calls[pos].file
                      /\ \A j \in 1..(k - 1) : changes[j].changedFile # calls[pos].file
                      /\ calls[pos].node.changeType = Some(changes[k].changeType)
                      /\ calls[pos].node.reason
                           = Some(<<"File was ", changes[k].changeType, "d">>)
               ELSE calls[pos].node.changeType = None /\ calls[pos].node.reason = None)
  /\ [][\A pos \in DOMAIN calls :
          pos \in DOMAIN calls' /\ ~ExtractionFailed(pos) /\ ExtractionFailed(pos)' =>
            /\ main' = main
            /\ visited' = visited
            /\ \A q \in DOMAIN calls : q # pos => calls'[q] = calls[q]]_vars
  /\ [](Returned =>
          \A pos \in DOMAIN calls : \A i \in DOMAIN calls[pos].slots :
            Append(pos, i) \in DOMAIN calls /\ ExtractionFailed(Append(pos, i)) =>
              /\ calls[pos].pc = "done"
              /\ \E k \in DOMAIN calls[pos].node.children :
                   calls[pos].node.children[k] = calls[Append(pos, i)].node
              /\ \A j \in DOMAIN calls[pos].slots : Settled(pos, j))

\* a.tsx is modified and cannot be parsed: its node keeps the stamp and has
\* nothing else, and the entry still has its three children.
C17_Witness ==
  /\ Returned
  /\ project = "degraded"
  /\ changes = <<Chg(FA, "modify", None)>>
  /\ calls[<<1>>].file = FA
  /\ ExtractionFailed(<<1>>)
  /\ calls[<<1>>].node
       = [Leaf(FA, "js") EXCEPT !.changeType = Some("modify"),
                                !.reason = Some(<<"File was ", "modify", "d">>)]
  /\ [k \in DOMAIN Get(result).children |-> Get(result).children[k].file] = <<FA, FB, FS>>
  /\ Get(result).children[1] = calls[<<1>>].node

\* The kind of the first entry of the Change Set for filePath.
OwnKind(filePath) ==
  changes[CHOOSE k \in DOMAIN changes :
            /\ changes[k].changedFile = filePath
            /\ \A j \in 1..(k - 1) : changes[j].changedFile # filePath].changeType

\* C18: a parsed code node whose file is a changed file and which has an
\* affecting entry has the import-impact reason alone, one line per entry and
\* no 'File was ...' line, and is affected, while its changeType is the kind
\* of its own change; the classification step leaves changeType as stamped
\* and overwrites the default reason.
C18_ImpactReasonReplaces ==
  /\ [](\A pos \in DOMAIN calls :
          Expanded(pos) /\ calls[pos].file \in ChangedFiles /\ AffectingPairs(pos) # {} =>
            /\ calls[pos].node.isAffected = Some(TRUE)
            /\ calls[pos].node.changeType = Some(OwnKind(calls[pos].file))
            /\ IsSome(calls[pos].node.reason)
            /\ "File was " \notin Range(Get(calls[pos].node.reason))
            /\ Len(Lines(Get(calls[pos].node.reason))) = Cardinality(AffectingPairs(pos))
            /\ \A ki \in AffectingPairs(pos) :
                 Basename(changes[ki[1]].changedFile)
                   \in Range(Lines(Get(calls[pos].node.reason))[Rank(pos, ki)]))
  /\ [][\A pos \in DOMAIN calls :
          /\ pos \in DOMAIN calls'
          /\ calls[pos].pc = "parse"
          /\ calls[pos].file \in ChangedFiles
          /\ IsSome(calls'[pos].node.imports)
          => /\ calls[pos].node.reason = Some(<<"File was ", OwnKind(calls[pos].file), "d">>)
             /\ calls'[pos].node.changeType = calls[pos].node.changeType
             /\ calls'[pos].affecting = <<>> => calls'[pos].node.reason = calls[pos].node.reason
             /\ calls'[pos].affecting # <<>> => calls'[pos].node.reason # calls[pos].node.reason]_vars

\* a.tsx is deleted and imports foo from b.js, which is modified in foo: the
\* node of a.tsx has changeType delete and the reason of the import.
C18_Witness ==
  /\ Returned
  /\ project = "cycle"
  /\ changes = <<Chg(FA, "delete", None), Chg(FB, "modify", Some(<<"foo">>))>>
  /\ Expanded(<<>>)
  /\ calls[<<>>].file = FA
  /\ calls[<<>>].node.changeType = Some("delete")
  /\ calls[<<>>].node.isAffected = Some(TRUE)
  /\ calls[<<>>].node.reason = Some(<<"Modified exports from '", "b.js", "': ", "foo">>)

\* The calls that passed the visited check for filePath.
FirstCalls(filePath) == {pos \in CallsFor(filePath) : ~calls[pos].stub}

\* C19: when analyzeProject has returned, the returned tree is the tree of
\* the calls, every call has returned, every path of the visited set is the
\* file of exactly one node returned by a call that passed the visited check,
\* every stub has exactly one such node for its file, at another position,
\* and the file of every node is in the visited set.
C19_TreeAccountsForVisited ==
  Returned =>
    /\ Get(result) = calls[<<>>].node
    /\ \A pos \in DOMAIN calls :
         /\ calls[pos].pc = "done"
         /\ calls[pos].node.file = calls[pos].file
         /\ calls[pos].node.children = Children(pos, 1)
         /\ pos # <<>> =>
              /\ SubSeq(pos, 1, Len(pos) - 1) \in DOMAIN calls
              /\ calls[SubSeq(pos, 1, Len(pos) - 1)].slots[pos[Len(pos)]] = "build"
         /\ calls[pos].file \in visited
         /\ calls[pos].stub =>
              /\ Cardinality(FirstCalls(calls[pos].file)) = 1
              /\ pos \notin FirstCalls(calls[pos].file)
    /\ \A p \in visited : Cardinality(FirstCalls(p)) = 1
    /\ visited = {calls[pos].file : pos \in DOMAIN calls}

\* The entry imports c.ts twice and lib/c.ts, which imports it too: three
\* visited paths, three nodes for c.ts, one of them from a first encounter.
C19_Witness ==
  /\ Returned
  /\ project = "twice"
  /\ visited = {FE, FC, FLC}
  /\ Cardinality(CallsFor(FC)) = 3
  /\ Cardinality(FirstCalls(FC)) = 1
  /\ Cardinality(DOMAIN calls) = 5
  /\ Cardinality({pos \in DOMAIN calls : calls[pos].stub}) = 2

\* reason is present exactly when changeType is present or isAffected is
\* true, and the reason of an affected node has no empty line.
ReasonIffAnnotated(node) ==
  /\ IsSome(node.reason) <=> (IsSome(node.changeType) \/ node.isAffected = Some(TRUE))
  /\ node.isAffected = Some(TRUE) =>
       /\ Get(node.reason) # <<>>
       /\ \A k \in DOMAIN Lines(Get(node.reason)) : Lines(Get(node.reason))[k] # <<>>

\* C20: in every node, of the calls in progress and of the returned tree,
\* reason is present if and only if changeType is present or isAffected is
\* true; an affected node has a non-empty reason and a node with neither
\* annotation has none.
C20_ReasonIffAnnotated ==
  /\ \A pos \in DOMAIN calls : ReasonIffAnnotated(calls[pos].node)
  /\ IsSome(result) => \A n \in TreeNodes(Get(result)) : ReasonIffAnnotated(n)

\* c.ts was added: in the returned tree c.ts has a changeType and a reason,
\* its importer a.tsx is affected and has a reason, and the entry has neither
\* annotation and no reason.
C20_Witness ==
  /\ Returned
  /\ project = "chain"
  /\ changes = <<Chg(FC, "add", None)>>
  /\ fsEvents = 0
  /\ Get(result).changeType = None
  /\ Get(result).isAffected = None
  /\ Get(result).reason = None
  /\ Get(result).children[1].file = FA
  /\ Get(result).children[1].changeType = None
  /\ Get(result).children[1].isAffected = Some(TRUE)
  /\ Get(result).children[1].reason
       = Some(<<"New file '", "c.ts", "' was added that is imported">>)
  /\ Get(result).children[1].children[1].file = FC
  /\ Get(result).children[1].children[1].changeType = Some("add")
  /\ Get(result).children[1].children[1].isAffected = None
  /\ Get(result).children[1].children[1].reason = Some(<<"File was ", "add", "d">>)

====
